---- MODULE Spec2Model ----
(***************************************************************************)
(* A model of src/media_collection.py: the image pipeline                  *)
(* (download_images / download_image), the video pipeline                  *)
(* (download_videos / extract_highest_quality_video_url / download_video)  *)
(* and the outer run (run_media_collection).                               *)
(*                                                                         *)
(* A URL is a small integer, NoUrl is pandas' NaN.  A file is named by its *)
(* stem (the part of the name before .jpg / .mp4); the two directories are *)
(* different, so images and videos have separate file maps.                *)
(***************************************************************************)
EXTENDS Naturals, Sequences, FiniteSets

VARIABLES
    env,         \* the environment: [dirs, imgCsv, vidCsv] can be made / read,
                 \* web, media: the responses the two sites can give
    oldFiles,    \* the stems of the files present when the run starts: [img, vid]
    run,         \* 1 in the first run of the program, 2 in the second
    log,         \* the events logged in this run: per item, and the completion
    vidFetch,    \* per video item: the page got, the resolved URL, the stream
    imgRecords,  \* rows of the images CSV, in order
    vidRecords,  \* rows of the videos CSV, in order
    mainPc,      \* run_media_collection: start, running, completed, raised
    imgPc,       \* download_images: idle, read, join, returned, raised
    vidPc,       \* download_videos: idle, read, loop, returned, raised
    imgItems,    \* unique_images, after dropna / drop_duplicates
    vidItems,    \* unique_videos, with the video_hash column
    imgSt,       \* per image item: queued, get, write, Skipped, Succeeded, Failed
    vidSt,       \* per video item: pending, resolving, queued, get, stream, ...
    imgFiles,    \* image directory: stem -> absent, old, partial, complete
    vidFiles,    \* video directory: stem -> absent, old, partial, complete
    imgGets,     \* per image item: requests.get calls issued for it
    vidGets,     \* per video item: streamed requests.get calls issued for it
    vidResolves  \* per video item: landing-page requests issued for it

vars == <<env, oldFiles, run, log, vidFetch, imgRecords, vidRecords, mainPc, imgPc, vidPc, imgItems, vidItems,
          imgSt, vidSt, imgFiles, vidFiles, imgGets, vidGets, vidResolves>>

(***************************************************************************)
(* Bounds of the model and constants of the program.                       *)
(***************************************************************************)
MaxRecords == 2      \* rows of the two CSV files together (Init)
BatchSize == 6       \* rows of the one CSV file of a batch run (InitPool)
MaxDedupRecords == 4 \* rows of a CSV file when only the reading is run (InitDedup)
MaxDivs == 2         \* marker containers of a landing page (InitResolve)
max_workers == 5     \* ThreadPoolExecutor(max_workers=5)
block_size == 1024   \* block_size = 1024

NoUrl == 0           \* a missing image_url / video_url (NaN)
SmallUrls == {1, 2}
SmallHashes == {1, 2}
BatchIds == 1..BatchSize
NoHref == 0          \* an anchor without href: get("href") is None

(***************************************************************************)
(* hash_url: the md5 digest of the URL.  Distinct URLs of the model get    *)
(* distinct digests; the digest is not the URL.                            *)
(***************************************************************************)
hash_url(url) == 100 + 7 * url

Min(S) == CHOOSE x \in S : \A y \in S : x <= y

SeqsUpTo(S, n) == UNION {[1..k -> S] : k \in 0..n}

(***************************************************************************)
(* dropna(subset=[url]) and drop_duplicates(subset=[url]) (keep first).    *)
(***************************************************************************)
HasUrl(r) == r.url # NoUrl

dropna(recs) == SelectSeq(recs, HasUrl)

\* keep="last" instead of the default keep="first"
drop_duplicates_keep_last(recs) ==
    LET idx == {k \in 1..Len(recs) :
                  \A j \in (k + 1)..Len(recs) : recs[j].url # recs[k].url}
        at(i) == CHOOSE k \in idx : Cardinality({j \in idx : j < k}) = i - 1
    IN [i \in 1..Cardinality(idx) |-> recs[at(i)]]

RECURSIVE drop_duplicates(_)
drop_duplicates(recs) ==
    IF recs = <<>> THEN <<>>
    ELSE LET n == Len(recs)
             front == drop_duplicates(SubSeq(recs, 1, n - 1))
         IN IF \E k \in 1..(n - 1) : recs[k].url = recs[n].url
            THEN front
            ELSE Append(front, recs[n])

unique_images(recs) == drop_duplicates(dropna(recs))

unique_videos(recs) ==
    LET u == drop_duplicates(dropna(recs))
    IN [k \in 1..Len(u) |-> [url |-> u[k].url, hash |-> hash_url(u[k].url)]]

(***************************************************************************)
(* File names.                                                             *)
(***************************************************************************)
ImgStems == SmallHashes \cup BatchIds
VidStems == {hash_url(u) : u \in {NoUrl} \cup SmallUrls \cup BatchIds}

ImgPath(i) == imgItems[i].hash
VidPath(i) == vidItems[i].hash

\* os.path.exists(file_path): any file at the path counts
ExistsGateStrict(f) == f = "complete"
ExistsGate(f) == f # "absent"

Terminal == {"Skipped", "Succeeded", "Failed", "Raised"}
Running(st) == Cardinality({i \in DOMAIN st : st[i] \in {"get", "write", "stream"}})
Queued(st) == {i \in DOMAIN st : st[i] = "queued"}

\* a worker of the pool is idle
HasFreeWorkerUnbounded(st) == TRUE
HasFreeWorker(st) == Running(st) < max_workers

\* the except clauses of download_image / download_video: the error is logged
OnFetchErrorUncaught == "Raised"
OnFetchErrorRetry == "queued"
OnFetchError == "Failed"

\* as_completed(futures) and the executor's exit: every submitted task has ended
JoinReadyNoWait(st) == TRUE
JoinReady(st) == \A i \in DOMAIN st : st[i] \in Terminal

\* logging.info / logging.error: one line for the item
LogSkip(l) == Append(l, "skip")
LogSuccess(l) == Append(l, "success")
LogFailureTwice(l) == Append(Append(l, "failure"), "failure")
LogFailure(l) == Append(l, "failure")

\* future.result() re-raises what a task raised
PipelineResult(st) ==
    IF \E i \in DOMAIN st : st[i] = "Raised" THEN "raised" ELSE "returned"

(***************************************************************************)
(* The responses of the landing-page site and of the media site.           *)
(* A page response is its status (ok, error; none: no response) and the    *)
(* marker containers of its body, each the hrefs of its anchors, in        *)
(* document order.  A media response is the size of its body and how it    *)
(* arrives: full blocks (a short one only at the end), or short reads.     *)
(***************************************************************************)
NoPage == [status |-> "unasked", divs |-> <<>>]
NoResponse == [status |-> "none", divs |-> <<>>]
GoodPage == [status |-> "ok", divs |-> <<(<<1>>)>>]
EmptyPage == [status |-> "ok", divs |-> <<>>]
SmallWeb == {GoodPage, EmptyPage, NoResponse}
PoolWeb == {GoodPage, NoResponse}
AnchorLists == {<<>>, <<1>>, <<2>>, <<NoHref>>, <<1, 2>>, <<2, 1>>}
RichWeb == {NoResponse} \cup [status : {"ok", "error"}, divs : SeqsUpTo(AnchorLists, MaxDivs)]

SmallMedia == {[size |-> 2 * block_size, delivery |-> "full"]}
PoolMedia == {[size |-> block_size, delivery |-> "full"]}
RichMedia ==
    [size : {0, 1, block_size - 1, block_size, block_size + 1}, delivery : {"full", "short"}]
    \cup [size : {2 * block_size + 452, 200 * block_size}, delivery : {"full"}]

NoFetch == [page |-> NoPage, direct |-> NoHref, delivery |-> "none", total |-> 0,
            left |-> 0, size |-> 0, progress |-> 0, chunks |-> 0, reports |-> 0]

\* lines 67-71: the body is parsed whatever the status; [0] raises IndexError
PageResolves(resp) ==
    /\ resp.status # "none"
    /\ Len(resp.divs) > 0
    /\ Len(resp.divs[1]) > 0

HighestQualityUrlLast(resp) == resp.divs[1][Len(resp.divs[1])]
HighestQualityUrl(resp) == resp.divs[1][1]

\* response.iter_content(block_size): the sizes the next chunk can have
ChunkSizes(f) ==
    IF f.delivery = "full"
    THEN {IF f.left < block_size THEN f.left ELSE block_size}
    ELSE {c \in {1, 500, block_size} : c <= f.left}

\* lines 94-95: progress_bar.update(len(data)); file.write(data)
WriteChunkFullBlock(f, c) ==
    [f EXCEPT !.left = @ - c, !.size = @ + c, !.progress = @ + block_size,
              !.chunks = @ + 1, !.reports = @ + 1]
WriteChunk(f, c) ==
    [f EXCEPT !.left = @ - c, !.size = @ + c, !.progress = @ + c,
              !.chunks = @ + 1, !.reports = @ + 1]

(***************************************************************************)
(* Initial states.                                                         *)
(***************************************************************************)
InitWith(web, media) ==
    /\ env \in [dirs : BOOLEAN, imgCsv : BOOLEAN, vidCsv : BOOLEAN,
                web : {web}, media : {media}]
    /\ vidFetch = <<>>
    /\ run = 1
    /\ log = [img |-> <<>>, vid |-> <<>>, done |-> 0]
    /\ mainPc = "start"
    /\ imgPc = "idle"
    /\ vidPc = "idle"
    /\ imgItems = <<>>
    /\ vidItems = <<>>
    /\ imgSt = <<>>
    /\ vidSt = <<>>
    /\ imgGets = <<>>
    /\ vidGets = <<>>
    /\ vidResolves = <<>>
    \* only the files some row names matter
    /\ oldFiles \in [img : SUBSET {imgRecords[k].hash : k \in DOMAIN imgRecords},
                     vid : SUBSET {hash_url(vidRecords[k].url) : k \in DOMAIN vidRecords}]
    /\ imgFiles = [s \in ImgStems |-> IF s \in oldFiles.img THEN "old" ELSE "absent"]
    /\ vidFiles = [s \in VidStems |-> IF s \in oldFiles.vid THEN "old" ELSE "absent"]

InitCommon == InitWith(SmallWeb, SmallMedia)

Init ==
    /\ imgRecords \in SeqsUpTo([url : {NoUrl} \cup SmallUrls, hash : SmallHashes], MaxRecords)
    /\ vidRecords \in SeqsUpTo([url : {NoUrl} \cup SmallUrls], MaxRecords)
    /\ Len(imgRecords) + Len(vidRecords) <= MaxRecords
    /\ InitCommon

\* a batch larger than the pool, in one of the two pipelines
InitPool ==
    /\ \/ /\ imgRecords = [k \in BatchIds |-> [url |-> k, hash |-> k]]
          /\ vidRecords = <<>>
       \/ /\ imgRecords = <<>>
          /\ vidRecords = [k \in BatchIds |-> [url |-> k]]
    /\ InitWith(PoolWeb, PoolMedia)
    /\ env.dirs /\ env.imgCsv /\ env.vidCsv
    /\ oldFiles = [img |-> {}, vid |-> {}]

(***************************************************************************)
(* run_media_collection                                                    *)
(***************************************************************************)
AfterMakeDirsIgnored(ok) == "running"
AfterMakeDirs(ok) == IF ok THEN "running" ELSE "raised"

\* lines 166-169: the completion is logged unless a pipeline raised
RunResultAlwaysCompleted(i, v) == "completed"
RunResult(i, v) ==
    IF i = "returned" /\ v = "returned" THEN "completed" ELSE "raised"

\* lines 153-164: create the directories, submit the two pipelines
MakeDirs ==
    /\ mainPc = "start"
    /\ mainPc' = AfterMakeDirs(env.dirs)
    /\ IF mainPc' = "running"
       THEN imgPc' = "read" /\ vidPc' = "read"
       ELSE UNCHANGED <<imgPc, vidPc>>
    /\ UNCHANGED <<env, oldFiles, run, log, vidFetch, imgRecords, vidRecords, imgItems, vidItems, imgSt, vidSt,
                   imgFiles, vidFiles, imgGets, vidGets, vidResolves>>

\* lines 166-169: both pipelines have ended; log completion unless one raised
MainJoin ==
    /\ mainPc = "running"
    /\ imgPc \in {"returned", "raised"}
    /\ vidPc \in {"returned", "raised"}
    /\ mainPc' = RunResult(imgPc, vidPc)
    /\ log' = IF mainPc' = "completed" THEN [log EXCEPT !.done = @ + 1] ELSE log
    /\ UNCHANGED <<env, oldFiles, run, vidFetch, imgRecords, vidRecords, imgPc, vidPc, imgItems, vidItems,
                   imgSt, vidSt, imgFiles, vidFiles, imgGets, vidGets, vidResolves>>

(***************************************************************************)
(* download_images / download_image                                        *)
(***************************************************************************)
\* lines 49-60: read the CSV, deduplicate, submit one task per row
ReadImages ==
    /\ imgPc = "read"
    /\ IF env.imgCsv
       THEN /\ imgItems' = unique_images(imgRecords)
            /\ imgSt' = [i \in DOMAIN imgItems' |-> "queued"]
            /\ imgGets' = [i \in DOMAIN imgItems' |-> 0]
            /\ log' = [log EXCEPT !.img = [i \in DOMAIN imgItems' |-> <<>>]]
            /\ imgPc' = "join"
       ELSE /\ imgPc' = "raised"
            /\ UNCHANGED <<imgItems, imgSt, imgGets, log>>
    /\ UNCHANGED <<env, oldFiles, run, vidFetch, imgRecords, vidRecords, mainPc, vidPc, vidItems, vidSt,
                   imgFiles, vidFiles, vidGets, vidResolves>>

\* lines 25-34: a worker takes the oldest queued task, checks the file, sends GET
StartImageTask(i) ==
    /\ imgPc = "join"
    /\ Queued(imgSt) # {}
    /\ i = Min(Queued(imgSt))
    /\ HasFreeWorker(imgSt)
    /\ IF ExistsGate(imgFiles[ImgPath(i)])
       THEN /\ imgSt' = [imgSt EXCEPT ![i] = "Skipped"]
            /\ log' = [log EXCEPT !.img[i] = LogSkip(@)]
            /\ UNCHANGED imgGets
       ELSE /\ imgSt' = [imgSt EXCEPT ![i] = "get"]
            /\ imgGets' = [imgGets EXCEPT ![i] = @ + 1]
            /\ UNCHANGED log
    /\ UNCHANGED <<env, oldFiles, run, vidFetch, imgRecords, vidRecords, mainPc, imgPc, vidPc, imgItems,
                   vidItems, vidSt, imgFiles, vidFiles, vidGets, vidResolves>>

\* lines 34-35, 42-45: the GET returns: a body, an error status, or no response
ImageGetReturns(i) ==
    /\ i \in DOMAIN imgSt
    /\ imgSt[i] = "get"
    /\ \/ /\ imgSt' = [imgSt EXCEPT ![i] = "write"]
          /\ UNCHANGED log
       \/ /\ imgSt' = [imgSt EXCEPT ![i] = OnFetchError] \* raise_for_status
          /\ log' = [log EXCEPT !.img[i] = LogFailure(@)]
       \/ /\ imgSt' = [imgSt EXCEPT ![i] = OnFetchError] \* transport failure
          /\ log' = [log EXCEPT !.img[i] = LogFailure(@)]
    /\ UNCHANGED <<env, oldFiles, run, vidFetch, imgRecords, vidRecords, mainPc, imgPc, vidPc, imgItems,
                   vidItems, vidSt, imgFiles, vidFiles, imgGets, vidGets, vidResolves>>

\* lines 38-41, 44-45: open(file_path, 'wb') and write the body
ImageWrite(i) ==
    /\ i \in DOMAIN imgSt
    /\ imgSt[i] = "write"
    /\ \/ /\ imgFiles' = [imgFiles EXCEPT ![ImgPath(i)] = "complete"]
          /\ imgSt' = [imgSt EXCEPT ![i] = "Succeeded"]
          /\ log' = [log EXCEPT !.img[i] = LogSuccess(@)]
       \/ /\ UNCHANGED imgFiles                          \* open fails
          /\ imgSt' = [imgSt EXCEPT ![i] = OnFetchError]
          /\ log' = [log EXCEPT !.img[i] = LogFailure(@)]
       \/ /\ imgFiles' = [imgFiles EXCEPT ![ImgPath(i)] = "partial"]
          /\ imgSt' = [imgSt EXCEPT ![i] = OnFetchError] \* write fails
          /\ log' = [log EXCEPT !.img[i] = LogFailure(@)]
    /\ UNCHANGED <<env, oldFiles, run, vidFetch, imgRecords, vidRecords, mainPc, imgPc, vidPc, imgItems,
                   vidItems, vidSt, vidFiles, imgGets, vidGets, vidResolves>>

\* lines 61-62 and the exit of the with block
ImagesReturn ==
    /\ imgPc = "join"
    /\ JoinReady(imgSt)
    /\ imgPc' = PipelineResult(imgSt)
    /\ UNCHANGED <<env, oldFiles, run, log, vidFetch, imgRecords, vidRecords, mainPc, vidPc, imgItems, vidItems,
                   imgSt, vidSt, imgFiles, vidFiles, imgGets, vidGets, vidResolves>>

(***************************************************************************)
(* download_videos / extract_highest_quality_video_url / download_video    *)
(***************************************************************************)
\* lines 106-114: read the CSV, deduplicate, hash the URLs
ReadVideos ==
    /\ vidPc = "read"
    /\ IF env.vidCsv
       THEN /\ vidItems' = unique_videos(vidRecords)
            /\ vidSt' = [i \in DOMAIN vidItems' |-> "pending"]
            /\ vidGets' = [i \in DOMAIN vidItems' |-> 0]
            /\ log' = [log EXCEPT !.vid = [i \in DOMAIN vidItems' |-> <<>>]]
            /\ vidResolves' = [i \in DOMAIN vidItems' |-> 0]
            /\ vidFetch' = [i \in DOMAIN vidItems' |-> NoFetch]
            /\ vidPc' = "loop"
       ELSE /\ vidPc' = "raised"
            /\ UNCHANGED <<vidItems, vidSt, vidGets, vidResolves, log, vidFetch>>
    /\ UNCHANGED <<env, oldFiles, run, imgRecords, vidRecords, mainPc, imgPc, imgItems, imgSt,
                   imgFiles, vidFiles, imgGets>>

Pending(st) == {i \in DOMAIN st : st[i] = "pending"}

\* the for loop of download_videos is between two rows
LoopReadyNoWait(st) == TRUE
LoopReady(st) == \A i \in DOMAIN st : st[i] # "resolving"

\* lines 118-130: the loop takes the next row, checks the file, requests the page
ExamineVideo(i) ==
    /\ vidPc = "loop"
    /\ Pending(vidSt) # {}
    /\ i = Min(Pending(vidSt))
    /\ LoopReady(vidSt)
    /\ IF ExistsGate(vidFiles[VidPath(i)])
       THEN /\ vidSt' = [vidSt EXCEPT ![i] = "Skipped"]
            /\ log' = [log EXCEPT !.vid[i] = LogSkip(@)]
            /\ UNCHANGED vidResolves
       ELSE /\ vidSt' = [vidSt EXCEPT ![i] = "resolving"]
            /\ vidResolves' = [vidResolves EXCEPT ![i] = @ + 1]
            /\ UNCHANGED log
    /\ UNCHANGED <<env, oldFiles, run, vidFetch, imgRecords, vidRecords, mainPc, imgPc, vidPc, imgItems,
                   vidItems, imgSt, imgFiles, vidFiles, imgGets, vidGets>>

\* lines 67-72, 131-133: the page request returns; submit the fetch or log the error
ResolveReturns(i) ==
    /\ i \in DOMAIN vidSt
    /\ vidSt[i] = "resolving"
    /\ \E resp \in env.web :
          IF PageResolves(resp)
          THEN /\ vidFetch' = [vidFetch EXCEPT ![i].page = resp,
                                               ![i].direct = HighestQualityUrl(resp)]
               /\ vidSt' = [vidSt EXCEPT ![i] = "queued"]
               /\ UNCHANGED log
          ELSE /\ vidFetch' = [vidFetch EXCEPT ![i].page = resp]
               /\ vidSt' = [vidSt EXCEPT ![i] = "Failed"]
               /\ log' = [log EXCEPT !.vid[i] = LogFailure(@)]
    /\ UNCHANGED <<env, oldFiles, run, imgRecords, vidRecords, mainPc, imgPc, vidPc, imgItems,
                   vidItems, imgSt, imgFiles, vidFiles, imgGets, vidGets, vidResolves>>

\* lines 77-86: a worker takes the oldest queued task, checks the file, sends GET
StartVideoTask(i) ==
    /\ vidPc = "loop"
    /\ Queued(vidSt) # {}
    /\ i = Min(Queued(vidSt))
    /\ HasFreeWorker(vidSt)
    /\ IF ExistsGate(vidFiles[VidPath(i)])
       THEN /\ vidSt' = [vidSt EXCEPT ![i] = "Skipped"]
            /\ log' = [log EXCEPT !.vid[i] = LogSkip(@)]
            /\ UNCHANGED vidGets
       ELSE /\ vidSt' = [vidSt EXCEPT ![i] = "get"]
            /\ vidGets' = [vidGets EXCEPT ![i] = @ + 1]
            /\ UNCHANGED log
    /\ UNCHANGED <<env, oldFiles, run, vidFetch, imgRecords, vidRecords, mainPc, imgPc, vidPc, imgItems,
                   vidItems, imgSt, imgFiles, vidFiles, imgGets, vidResolves>>

\* lines 86-92, 99-102: the streamed GET returns its headers; open the file
VideoGetReturns(i) ==
    /\ i \in DOMAIN vidSt
    /\ vidSt[i] = "get"
    /\ \/ /\ vidFetch[i].direct # NoHref
          /\ \E m \in env.media :
                vidFetch' = [vidFetch EXCEPT ![i].delivery = m.delivery,
                                             ![i].total = m.size,
                                             ![i].left = m.size]
          /\ vidFiles' = [vidFiles EXCEPT ![VidPath(i)] = "partial"]
          /\ vidSt' = [vidSt EXCEPT ![i] = "stream"]
          /\ UNCHANGED log
       \/ /\ UNCHANGED <<vidFiles, vidFetch>>     \* no URL, error status, no response
          /\ vidSt' = [vidSt EXCEPT ![i] = OnFetchError]
          /\ log' = [log EXCEPT !.vid[i] = LogFailure(@)]
       \/ /\ vidFetch[i].direct # NoHref
          /\ UNCHANGED <<vidFiles, vidFetch>>               \* open fails
          /\ vidSt' = [vidSt EXCEPT ![i] = OnFetchError]
          /\ log' = [log EXCEPT !.vid[i] = LogFailure(@)]
    /\ UNCHANGED <<env, oldFiles, run, imgRecords, vidRecords, mainPc, imgPc, vidPc, imgItems,
                   vidItems, imgSt, imgFiles, imgGets, vidGets, vidResolves>>

\* lines 93-98, 101-102: the chunks are written; the stream ends or breaks
VideoStream(i) ==
    /\ i \in DOMAIN vidSt
    /\ vidSt[i] = "stream"
    /\ \/ \E c \in IF vidFetch[i].left = 0 THEN {0} ELSE ChunkSizes(vidFetch[i]) :
             /\ vidFetch' = IF c = 0 THEN vidFetch
                            ELSE [vidFetch EXCEPT ![i] = WriteChunk(@, c)]
             /\ IF vidFetch'[i].left = 0        \* the body has ended
                THEN /\ vidFiles' = [vidFiles EXCEPT ![VidPath(i)] = "complete"]
                     /\ vidSt' = [vidSt EXCEPT ![i] = "Succeeded"]
                     /\ log' = [log EXCEPT !.vid[i] = LogSuccess(@)]
                ELSE UNCHANGED <<vidFiles, vidSt, log>>
       \/ /\ UNCHANGED <<vidFiles, vidFetch>>               \* the file stays as written
          /\ vidSt' = [vidSt EXCEPT ![i] = OnFetchError]
          /\ log' = [log EXCEPT !.vid[i] = LogFailure(@)]
    /\ UNCHANGED <<env, oldFiles, run, imgRecords, vidRecords, mainPc, imgPc, vidPc, imgItems,
                   vidItems, imgSt, imgFiles, imgGets, vidGets, vidResolves>>

\* lines 135-136 and the exit of the with block
VideosReturn ==
    /\ vidPc = "loop"
    /\ Pending(vidSt) = {}
    /\ LoopReady(vidSt)
    /\ JoinReady(vidSt)
    /\ vidPc' = PipelineResult(vidSt)
    /\ UNCHANGED <<env, oldFiles, run, log, vidFetch, imgRecords, vidRecords, mainPc, imgPc, imgItems, vidItems,
                   imgSt, vidSt, imgFiles, vidFiles, imgGets, vidGets, vidResolves>>

Next ==
    \/ MakeDirs
    \/ MainJoin
    \/ ReadImages
    \/ \E i \in 1..Len(imgSt) : StartImageTask(i)
    \/ \E i \in 1..Len(imgSt) : ImageGetReturns(i)
    \/ \E i \in 1..Len(imgSt) : ImageWrite(i)
    \/ ImagesReturn
    \/ ReadVideos
    \/ \E i \in 1..Len(vidSt) : ExamineVideo(i)
    \/ \E i \in 1..Len(vidSt) : ResolveReturns(i)
    \/ \E i \in 1..Len(vidSt) : StartVideoTask(i)
    \/ \E i \in 1..Len(vidSt) : VideoGetReturns(i)
    \/ \E i \in 1..Len(vidSt) : VideoStream(i)
    \/ VideosReturn

Spec == Init /\ [][Next]_vars

SpecPool == InitPool /\ [][Next]_vars

\* every thread that can take a step takes it, every request returns
FairSpec == Init /\ [][Next]_vars /\ WF_vars(Next)

(***************************************************************************)
(* A second run of the program on the same CSV files and directories.      *)
(***************************************************************************)
\* every file the ended run left is there when the next run starts
LeftBy(files) == {s \in DOMAIN files : ExistsGate(files[s])}

\* line 173, a second time: the process starts again with nothing but the files
SecondRun ==
    /\ run = 1
    /\ mainPc \in {"completed", "raised"}
    /\ run' = 2
    /\ oldFiles' = [img |-> LeftBy(imgFiles), vid |-> LeftBy(vidFiles)]
    /\ imgFiles' = [s \in ImgStems |-> IF s \in oldFiles'.img THEN "old" ELSE "absent"]
    /\ vidFiles' = [s \in VidStems |-> IF s \in oldFiles'.vid THEN "old" ELSE "absent"]
    /\ mainPc' = "start"
    /\ imgPc' = "idle"
    /\ vidPc' = "idle"
    /\ imgItems' = <<>>
    /\ vidItems' = <<>>
    /\ imgSt' = <<>>
    /\ vidSt' = <<>>
    /\ imgGets' = <<>>
    /\ vidGets' = <<>>
    /\ vidResolves' = <<>>
    /\ vidFetch' = <<>>
    /\ log' = [img |-> <<>>, vid |-> <<>>, done |-> 0]
    /\ UNCHANGED <<env, imgRecords, vidRecords>>

NextTwice == Next \/ SecondRun

\* the program is run, and then run again
SpecTwice == Init /\ [][NextTwice]_vars

(***************************************************************************)
(* The video pipeline alone, one row, no image rows: every landing page    *)
(* the site can answer with (SpecResolve), every body the media site can   *)
(* stream (SpecStream).                                                    *)
(***************************************************************************)
InitVideoOnly(web, media) ==
    /\ imgRecords = <<>>
    /\ vidRecords = <<[url |-> 1]>>
    /\ InitWith(web, media)
    /\ env.dirs /\ env.imgCsv /\ env.vidCsv
    /\ oldFiles = [img |-> {}, vid |-> {}]

NextVideoOnly ==
    \/ MakeDirs
    \/ MainJoin
    \/ ReadImages
    \/ ImagesReturn
    \/ ReadVideos
    \/ \E i \in 1..MaxRecords :
          \/ ExamineVideo(i)
          \/ ResolveReturns(i)
          \/ StartVideoTask(i)
          \/ VideoGetReturns(i)
          \/ VideoStream(i)
    \/ VideosReturn

InitResolve == InitVideoOnly(RichWeb, PoolMedia)
SpecResolve == InitResolve /\ [][NextVideoOnly]_vars

InitStream == InitVideoOnly({GoodPage}, RichMedia)
SpecStream == InitStream /\ [][NextVideoOnly]_vars

(***************************************************************************)
(* Reading alone: longer CSV files, the same URL column in both.           *)
(***************************************************************************)
InitDedup ==
    /\ imgRecords \in SeqsUpTo([url : {NoUrl} \cup SmallUrls, hash : SmallHashes],
                               MaxDedupRecords)
    /\ vidRecords = [k \in DOMAIN imgRecords |-> [url |-> imgRecords[k].url]]
    /\ InitCommon
    /\ env.dirs /\ env.imgCsv /\ env.vidCsv
    /\ oldFiles = [img |-> {}, vid |-> {}]

NextDedup == MakeDirs \/ ReadImages \/ ReadVideos

SpecDedup == InitDedup /\ [][NextDedup]_vars

(***************************************************************************)
(* Properties.                                                             *)
(***************************************************************************)
ImgIdx == DOMAIN imgSt
VidIdx == DOMAIN vidSt
Ended == {"returned", "raised"}

\* C1: an item whose target file exists when the run starts causes no network
\* call (no image GET, no page request, no video GET), its file is left as it
\* was, and the item ends Skipped.
SkipsExistingFiles ==
    /\ \A i \in ImgIdx : ImgPath(i) \in oldFiles.img =>
          /\ imgGets[i] = 0
          /\ imgFiles[ImgPath(i)] = "old"
          /\ imgSt[i] \in {"queued", "Skipped"}
          /\ imgPc \in Ended => imgSt[i] = "Skipped"
    /\ \A i \in VidIdx : VidPath(i) \in oldFiles.vid =>
          /\ vidGets[i] = 0
          /\ vidResolves[i] = 0
          /\ vidFiles[VidPath(i)] = "old"
          /\ vidSt[i] \in {"pending", "Skipped"}
          /\ vidPc \in Ended => vidSt[i] = "Skipped"

SkipsExistingFilesWitness ==
    /\ mainPc = "completed"
    /\ \E i \in ImgIdx : ImgPath(i) \in oldFiles.img /\ imgSt[i] = "Skipped"
    /\ \E i \in VidIdx : VidPath(i) \in oldFiles.vid /\ vidSt[i] = "Skipped"

JoinBarrier ==
    /\ imgPc = "returned" =>
          /\ Len(imgSt) = Len(unique_images(imgRecords))
          /\ \A i \in ImgIdx : imgSt[i] \in {"Skipped", "Succeeded", "Failed"}
    /\ vidPc = "returned" =>
          /\ Len(vidSt) = Len(unique_videos(vidRecords))
          /\ \A i \in VidIdx : vidSt[i] \in {"Skipped", "Succeeded", "Failed"}

JoinBarrierWitness ==
    /\ imgPc = "returned" /\ \E i \in ImgIdx : imgSt[i] = "Succeeded"
    /\ vidPc = "returned" /\ \E i \in VidIdx : vidSt[i] = "Succeeded"

\* C4: at most max_workers tasks of one pipeline run at the same time; the
\* other submitted items are in the queue.
BoundedParallelism ==
    /\ Running(imgSt) <= max_workers
    /\ Running(vidSt) <= max_workers

BoundedParallelismWitness ==
    \/ Running(imgSt) = max_workers /\ Queued(imgSt) # {}
    \/ Running(vidSt) = max_workers /\ Queued(vidSt) # {}

\* C5: no two items of a pipeline pass the existence check for one path and
\* both write it.
NoSharedTarget ==
    /\ \A i, j \in ImgIdx :
          (i # j /\ ImgPath(i) = ImgPath(j)) =>
              ~(imgSt[i] = "Succeeded" /\ imgSt[j] = "Succeeded")
    /\ \A i, j \in VidIdx :
          (i # j /\ VidPath(i) = VidPath(j)) =>
              ~(vidSt[i] = "Succeeded" /\ vidSt[j] = "Succeeded")

\* C6: after a video fetch has failed, no file that passes the existence check
\* is at the item's target path.
NoFileAfterFailedVideo ==
    \A i \in VidIdx : vidSt[i] = "Failed" => ~ExistsGate(vidFiles[VidPath(i)])

\* C7: an image fetch that succeeds leaves the complete file at the target
\* path; one that fails leaves no file there.
ImageFileEffect ==
    \A i \in ImgIdx :
        /\ imgSt[i] = "Succeeded" => imgFiles[ImgPath(i)] = "complete"
        /\ imgSt[i] = "Failed" => imgFiles[ImgPath(i)] = "absent"

\* C8 (as stated): a page request in progress does not delay the other items:
\* the next row can be examined while it is outstanding.
ResolutionDoesNotBlock ==
    \A i \in VidIdx :
        (vidSt[i] = "resolving" /\ Pending(vidSt) # {}) =>
            ENABLED ExamineVideo(Min(Pending(vidSt)))

\* C8 (amended): the page request is made by the loop of download_videos, one
\* row at a time: at most one is outstanding, every earlier row has been
\* examined and no later row has; only the streamed fetch runs in the pool.
SerialResolution ==
    \A i \in VidIdx : vidSt[i] = "resolving" =>
        /\ \A j \in VidIdx : j > i => vidSt[j] = "pending"
        /\ \A j \in VidIdx : j < i => vidSt[j] \notin {"pending", "resolving"}

SerialResolutionWitness ==
    \E i, j \in VidIdx :
        /\ vidSt[i] = "resolving"
        /\ vidSt[j] = "pending"
        /\ HasFreeWorker(vidSt)

NoImageDispatch ==
    /\ imgSt = <<>>
    /\ \A s \in ImgStems : imgFiles[s] \in {"absent", "old"}

NoVideoDispatch ==
    /\ vidSt = <<>>
    /\ \A s \in VidStems : vidFiles[s] \in {"absent", "old"}

\* C9 (as stated): when an input cannot be read or an output directory cannot
\* be created, no item of either pipeline is submitted, fetched or written.
FatalStopsEveryDispatch ==
    (~env.dirs \/ ~env.imgCsv \/ ~env.vidCsv) => (NoImageDispatch /\ NoVideoDispatch)

\* C9 (amended): when an output directory cannot be created, no item of either
\* pipeline is submitted, fetched or written; when the input of one pipeline
\* cannot be read, no item of that pipeline is.
FatalStopsOwnDispatch ==
    /\ ~env.dirs => (NoImageDispatch /\ NoVideoDispatch)
    /\ ~env.imgCsv => NoImageDispatch
    /\ ~env.vidCsv => NoVideoDispatch

FatalStopsOwnDispatchWitness ==
    /\ ~env.imgCsv
    /\ mainPc = "raised"
    /\ NoImageDispatch
    /\ \E i \in VidIdx : vidSt[i] = "Succeeded"

\* C10 (as stated): with both inputs readable, a run that has ended has
\* completed: it did not raise.
ReadableInputsComplete ==
    (env.imgCsv /\ env.vidCsv /\ mainPc \in {"completed", "raised"}) =>
        mainPc = "completed"

\* C10 (amended): with both inputs readable and both output directories
\* there or created, the run eventually completes, whatever items failed.
Termination ==
    (env.dirs /\ env.imgCsv /\ env.vidCsv) ~> (mainPc = "completed")

TerminationWitness ==
    /\ mainPc = "completed"
    /\ \E i \in ImgIdx : imgSt[i] = "Failed"
    /\ \E i \in VidIdx : vidSt[i] = "Failed"

ImgFileSet == {s \in ImgStems : imgFiles[s] # "absent"}
VidFileSet == {s \in VidStems : vidFiles[s] # "absent"}

\* C11 (as stated): in a second run the set of files in the output directories
\* is the set the first run left.
SecondRunSameFiles ==
    run = 2 => (ImgFileSet = oldFiles.img /\ VidFileSet = oldFiles.vid)

\* C11 (amended): a second run leaves every file of the first run in place and
\* as it was; a file it adds is the file of an item that had none after the
\* first run and was fetched again.
SecondRunKeepsFiles ==
    run = 2 =>
        /\ \A s \in oldFiles.img : imgFiles[s] = "old"
        /\ \A s \in oldFiles.vid : vidFiles[s] = "old"
        /\ \A s \in ImgFileSet \ oldFiles.img :
              \E i \in ImgIdx : ImgPath(i) = s /\ imgGets[i] = 1
        /\ \A s \in VidFileSet \ oldFiles.vid :
              \E i \in VidIdx : VidPath(i) = s /\ vidGets[i] = 1

SecondRunKeepsFilesWitness ==
    /\ run = 2
    /\ mainPc = "completed"
    /\ \E i \in ImgIdx : imgSt[i] = "Skipped"
    /\ \E i \in VidIdx : vidSt[i] = "Succeeded"
    /\ oldFiles.img # {}

FirstRow(recs, url) == Min({k \in DOMAIN recs : recs[k].url = url})

OncePerUrl(items, recs) ==
    /\ \A k \in DOMAIN recs : HasUrl(recs[k]) =>
          Cardinality({i \in DOMAIN items : items[i].url = recs[k].url}) = 1
    /\ \A i \in DOMAIN items :
          /\ HasUrl(items[i])
          /\ \E k \in DOMAIN recs : recs[k].url = items[i].url

\* C12: the items a pipeline dispatches hold each distinct URL of the rows
\* once, none for a row without URL, and an item has the fields of the first
\* row with its URL.
DedupCorrect ==
    /\ imgPc = "join" =>
          /\ OncePerUrl(imgItems, imgRecords)
          /\ Len(imgSt) = Len(imgItems)
          /\ \A i \in DOMAIN imgItems :
                imgItems[i] = imgRecords[FirstRow(imgRecords, imgItems[i].url)]
    /\ vidPc = "loop" =>
          /\ OncePerUrl(vidItems, vidRecords)
          /\ Len(vidSt) = Len(vidItems)
          /\ \A i \in DOMAIN vidItems : vidItems[i].hash = hash_url(vidItems[i].url)

DedupCorrectWitness ==
    /\ imgPc = "join"
    /\ vidPc = "loop"
    /\ Len(imgRecords) = MaxDedupRecords
    /\ Len(imgItems) = 2
    /\ \E j, k \in DOMAIN imgRecords :
          /\ j < k
          /\ imgRecords[j].url = imgRecords[k].url
          /\ HasUrl(imgRecords[j])
          /\ imgRecords[j].hash # imgRecords[k].hash
    /\ \E k \in DOMAIN imgRecords : ~HasUrl(imgRecords[k])

EventOf(st) ==
    CASE st = "Skipped" -> <<"skip">>
      [] st = "Succeeded" -> <<"success">>
      [] st = "Failed" -> <<"failure">>
      [] OTHER -> <<>>

\* C13: every item has exactly one outcome event in the log once it has
\* ended (skip, success or failure, as its outcome) and none before.
OneOutcomeEvent ==
    /\ \A i \in ImgIdx : log.img[i] = EventOf(imgSt[i])
    /\ \A i \in VidIdx : log.vid[i] = EventOf(vidSt[i])
    /\ imgPc = "returned" => \A i \in ImgIdx : Len(log.img[i]) = 1
    /\ vidPc = "returned" => \A i \in VidIdx : Len(log.vid[i]) = 1

OneOutcomeEventWitness ==
    /\ mainPc = "completed"
    /\ \E i \in ImgIdx : log.img[i] = <<"failure">>
    /\ \E i \in VidIdx : log.vid[i] = <<"skip">>

\* the page request of item i has returned
Asked(i) == vidFetch[i].page.status # "unasked"

\* a video fetch was submitted for item i
Submitted(i) == vidSt[i] \in {"queued", "get", "stream", "Skipped", "Succeeded"} \/ vidGets[i] > 0

\* C14: a landing page answered with an error status ends the item as Failed
\* (an HTTP error), with no direct URL taken from it and no fetch submitted.
ErrorPageFails ==
    \A i \in DOMAIN vidFetch :
        vidFetch[i].page.status = "error" =>
            /\ vidSt[i] = "Failed"
            /\ vidFetch[i].direct = NoHref
            /\ ~Submitted(i)

\* the anchors of the first marker container of a page, in document order
FirstContainer(page) == IF page.divs = <<>> THEN <<>> ELSE Head(page.divs)

\* C15: for any landing page, the direct URL is the first anchor, in document
\* order, of the first marker container, and the fetch is submitted with it; if
\* there is no container, or no anchor in the first one, the item is Failed
\* and no video fetch is submitted.
ResolutionSelection ==
    \A i \in DOMAIN vidFetch :
        Asked(i) =>
            IF vidFetch[i].page.status # "none" /\ FirstContainer(vidFetch[i].page) # <<>>
            THEN /\ vidFetch[i].direct = Head(FirstContainer(vidFetch[i].page))
                 /\ Submitted(i)
            ELSE /\ vidSt[i] = "Failed"
                 /\ ~Submitted(i)
                 /\ vidGets[i] = 0

ResolutionSelectionWitness ==
    \E i \in DOMAIN vidFetch :
        /\ Len(vidFetch[i].page.divs) = MaxDivs
        /\ FirstContainer(vidFetch[i].page) = <<2, 1>>
        /\ vidFetch[i].direct = 2
        /\ vidSt[i] = "Succeeded"

ResolutionFailsWitness ==
    \E i \in DOMAIN vidFetch :
        /\ vidFetch[i].page.status = "ok"
        /\ Len(vidFetch[i].page.divs) = MaxDivs
        /\ FirstContainer(vidFetch[i].page) = <<>>
        /\ vidSt[i] = "Failed"

CeilDiv(n, d) == (n + d - 1) \div d

NoRetry ==
    /\ \A i \in ImgIdx : imgGets[i] <= 1
    /\ \A i \in VidIdx : vidGets[i] <= 1 /\ vidResolves[i] <= 1
    /\ \A i \in ImgIdx : imgSt[i] = "Failed" => imgGets[i] = 1
    /\ \A i \in VidIdx : vidSt[i] = "Failed" => vidResolves[i] = 1

NoRetryWitness ==
    /\ mainPc = "completed"
    /\ \E i \in ImgIdx : imgSt[i] = "Failed" /\ imgGets[i] = 1
    /\ \E i \in VidIdx : vidSt[i] = "Failed" /\ vidGets[i] = 1

ImgStep ==
    \/ ReadImages
    \/ \E i \in 1..Len(imgSt) : StartImageTask(i) \/ ImageGetReturns(i) \/ ImageWrite(i)
    \/ ImagesReturn

VidStep ==
    \/ ReadVideos
    \/ \E i \in 1..Len(vidSt) :
          \/ ExamineVideo(i) \/ ResolveReturns(i) \/ StartVideoTask(i)
          \/ VideoGetReturns(i) \/ VideoStream(i)
    \/ VideosReturn

\* C18: the two pipelines start together and each can always take its next
\* step, whatever the other does; a pipeline that raised does not stop the
\* other, which ends all its items before the run ends; the completion is
\* logged exactly when both returned.
SiblingPipelines ==
    /\ (imgPc = "idle") <=> (vidPc = "idle")
    /\ imgPc \in {"read", "join"} => ENABLED ImgStep
    /\ vidPc \in {"read", "loop"} => ENABLED VidStep
    /\ (mainPc \in {"completed", "raised"} /\ env.dirs) =>
          /\ imgPc \in Ended /\ vidPc \in Ended
          /\ env.imgCsv =>
                /\ imgPc = "returned"
                /\ Len(imgSt) = Len(unique_images(imgRecords))
                /\ \A i \in ImgIdx : imgSt[i] \in Terminal
          /\ env.vidCsv =>
                /\ vidPc = "returned"
                /\ Len(vidSt) = Len(unique_videos(vidRecords))
                /\ \A i \in VidIdx : vidSt[i] \in Terminal
    /\ log.done = IF mainPc = "completed" THEN 1 ELSE 0
    /\ mainPc = "completed" => (imgPc = "returned" /\ vidPc = "returned")

SiblingPipelinesWitness ==
    /\ imgPc = "raised"
    /\ mainPc = "running"
    /\ \E i \in VidIdx : vidSt[i] = "stream"

====
